---- MODULE Spec2Model ----
(***************************************************************************)
(* Model of policy/generic_replay_buffer.py: the ReplayBuffer class, a     *)
(* fixed-size queue of flattened (s, a, r, done, sp) records with a        *)
(* "filled once" gate in front of sampling.                                *)
(*                                                                         *)
(* A numpy array is a record [shape |-> <<d1, ..., dk>>, data |-> <<...>>] *)
(* with the data in row-major order.  A 2-D array that the code indexes by *)
(* row (the queue, an encoded batch) is a sequence of rows.  An operation  *)
(* that can raise returns a record with an err field: "none", the class's  *)
(* own "ReplayBufferError", or numpy's "ValueError".                       *)
(***************************************************************************)
EXTENDS Integers, Sequences, FiniteSets, TLC

\* Bounds of the exploration.
MaxSize == 2
MaxMarker == 5

VARIABLES
    _size,      \* self._size: number of rows of the queue
    _contains,  \* self._contains: examples seen until the buffer is full
    _s_shape,   \* self._s_shape
    _a_shape,   \* self._a_shape
    _r_shape,   \* self._r_shape
    _queue,     \* self._queue: _size rows of _sars_size numbers
    op,         \* the last public method called
    form,       \* how the arguments of the last call were shaped
    asked,      \* the n of the last call: its batch size, or its sample size
    err,        \* what the last call raised ("none": it returned)
    ret,        \* what the last sample call returned
    indices,    \* the row indices the last sample call drew
    pushed,     \* markers of the transitions of every push that returned
    singles,    \* every push so far was a store_example call
    returned,   \* every push so far returned
    marker      \* the marker the next transition handed to a push carries

vars == <<_size, _contains, _s_shape, _a_shape, _r_shape, _queue,
          op, form, asked, err, ret, indices, pushed, singles, returned, marker>>

Max(a, b) == IF a >= b THEN a ELSE b
Min(a, b) == IF a <= b THEN a ELSE b

RECURSIVE reduce_mul(_)
reduce_mul(l) ==
    IF Len(l) = 1 THEN l[1] ELSE reduce_mul(<<l[1] * l[2]>> \o SubSeq(l, 3, Len(l)))

\* prod(l): functools.reduce(lambda x,y: x*y, (1,) + l)
prod(l) == reduce_mul(<<1>> \o l)

RECURSIVE Concat(_)
Concat(ss) == IF ss = <<>> THEN <<>> ELSE Head(ss) \o Concat(Tail(ss))

\* ------------------------------------------------------------------ numpy

\* x.flatten()
np_flatten(x) == [shape |-> <<Len(x.data)>>, data |-> x.data]

\* np.expand_dims(x, axis=-1): the new axis last
np_expand_dims_last(x) == [shape |-> x.shape \o <<1>>, data |-> x.data]

\* np.expand_dims(x, axis=0)
np_expand_dims(x) == [shape |-> <<1>> \o x.shape, data |-> x.data]

\* np.reshape(x, (batch, -1)), as rows: the unknown dimension must divide
\* the element count, and cannot be inferred next to a dimension of 0.
np_reshape_rows(x, batch) ==
    IF batch = 0 \/ Len(x.data) % batch # 0
    THEN [err |-> "ValueError", rows |-> <<>>]
    ELSE LET c == Len(x.data) \div batch
         IN  [err |-> "none",
              rows |-> [i \in 1..batch |-> SubSeq(x.data, (i - 1) * c + 1, i * c)]]

\* np.reshape(rows, (-1,) + shape) of a 2-D slice
np_reshape_lead(rows, shape) ==
    LET data == Concat(rows)
    IN  [shape |-> <<Len(data) \div prod(shape)>> \o shape, data |-> data]

\* Whether an array of srcLen rows can be assigned to a slice of dstLen rows.
np_broadcasts(srcLen, dstLen) == srcLen = dstLen \/ srcLen = 1

\* np.random.choice(size, n) drawing with replacement (replace=True, numpy's default)
np_random_choice_replace(size, n) == [1..n -> 0..(size - 1)]

\* np.random.choice(size, n, replace=False): every outcome it can draw
np_random_choice(size, n) ==
    {f \in [1..n -> 0..(size - 1)] : \A i, j \in 1..n : i # j => f[i] # f[j]}

\* ----------------------------------------------------------- the buffer

_s_size == prod(_s_shape)
_a_size == prod(_a_shape)
_r_size == prod(_r_shape)
_d_shape == <<>>
_d_size == 1
_sars_size == _s_size * 2 + _a_size + _r_size + _d_size

\* should_sample with a strict comparison: self._size < self._contains
should_sample_strict(size, contains) == size < contains

\* should_sample, of a buffer of `size` rows that has seen `contains`
should_sample_of(size, contains) == size <= contains

should_sample == should_sample_of(_size, _contains)

\* _pop without its slice assignment: no row moves
_pop_keeps(q, n) == [err |-> "none", queue |-> q]

\* self._queue[:-n] = self._queue[n:]
_pop(q, n) ==
    LET size == Len(q)
        dstLen == IF n = 0 THEN 0 ELSE Max(size - n, 0)
        srcStart == Min(n, size)
        srcLen == size - srcStart
    IN  IF ~np_broadcasts(srcLen, dstLen)
        THEN [err |-> "ValueError", queue |-> q]
        ELSE [err |-> "none",
              queue |-> [i \in 1..size |->
                           IF i <= dstLen
                           THEN q[srcStart + (IF srcLen = 1 THEN 1 ELSE i)]
                           ELSE q[i]]]

\* _push writing at the head: self._queue[:sarses_len] = sarses
_push_head(q, sarses, width) ==
    LET size == Len(q)
        sarses_len == Len(sarses)
        dstLen == Min(sarses_len, size)
        cols == IF sarses_len = 0 THEN 0 ELSE Len(sarses[1])
    IN  IF ~np_broadcasts(sarses_len, dstLen) \/ ~np_broadcasts(cols, width)
        THEN [err |-> "ValueError", queue |-> q]
        ELSE [err |-> "none",
              queue |-> [i \in 1..size |-> IF i <= dstLen THEN sarses[i] ELSE q[i]]]

\* self._queue[-sarses_len:] = sarses
_push(q, sarses, width) ==
    LET size == Len(q)
        sarses_len == Len(sarses)
        dstStart == IF sarses_len = 0 THEN 0 ELSE Max(size - sarses_len, 0)
        dstLen == size - dstStart
        cols == IF sarses_len = 0 THEN 0 ELSE Len(sarses[1])
    IN  IF ~np_broadcasts(sarses_len, dstLen) \/ ~np_broadcasts(cols, width)
        THEN [err |-> "ValueError", queue |-> q]
        ELSE [err |-> "none",
              queue |-> [i \in 1..size |->
                           IF i > dstStart
                           THEN LET row == sarses[IF sarses_len = 1 THEN 1 ELSE i - dstStart]
                                IN  IF cols = width THEN row
                                    ELSE [k \in 1..width |-> row[1]]
                           ELSE q[i]]]

_encode_sarses(s, a, r, sp, d) ==
    LET batch_size == s.shape[1]
    IN  IF batch_size # a.shape[1] \/ batch_size # r.shape[1]
           \/ batch_size # sp.shape[1] \/ batch_size # d.shape[1]
        THEN [err |-> "ReplayBufferError", rows |-> <<>>]
        ELSE LET s2 == np_reshape_rows(s, batch_size)
                 a2 == np_reshape_rows(a, batch_size)
                 r2 == np_reshape_rows(r, batch_size)
                 sp2 == np_reshape_rows(sp, batch_size)
                 d2 == np_reshape_rows(d, batch_size)
             IN  IF \E x \in {s2, a2, r2, sp2, d2} : x.err # "none"
                 THEN [err |-> "ValueError", rows |-> <<>>]
                 ELSE [err |-> "none",
                       rows |-> [i \in 1..batch_size |->
                                   s2.rows[i] \o a2.rows[i] \o r2.rows[i]
                                   \o d2.rows[i] \o sp2.rows[i]]]

\* _decode_sarses cutting the rows as [s | a | r | sp | d]
_decode_sarses_sp_first(sarses) ==
    LET s_div == _s_size
        a_div == _a_size + s_div
        r_div == _r_size + a_div
        sp_div == _s_size + r_div
        cut(lo, hi) == [i \in 1..Len(sarses) |-> SubSeq(sarses[i], lo + 1, hi)]
        rest(lo) == [i \in 1..Len(sarses) |-> SubSeq(sarses[i], lo + 1, Len(sarses[i]))]
    IN  [s |-> np_reshape_lead(cut(0, s_div), _s_shape),
         a |-> np_reshape_lead(cut(s_div, a_div), _a_shape),
         r |-> np_reshape_lead(cut(a_div, r_div), _r_shape),
         sp |-> np_reshape_lead(cut(r_div, sp_div), _s_shape),
         d |-> np_reshape_lead(rest(sp_div), _d_shape)]

\* The last slice, sarses[:, d_div:], runs to the end of each row.
_decode_sarses(sarses) ==
    LET s_div == _s_size
        a_div == _a_size + s_div
        r_div == _r_size + a_div
        d_div == _d_size + r_div
        cut(lo, hi) == [i \in 1..Len(sarses) |-> SubSeq(sarses[i], lo + 1, hi)]
        rest(lo) == [i \in 1..Len(sarses) |-> SubSeq(sarses[i], lo + 1, Len(sarses[i]))]
    IN  [s |-> np_reshape_lead(cut(0, s_div), _s_shape),
         a |-> np_reshape_lead(cut(s_div, a_div), _a_shape),
         r |-> np_reshape_lead(cut(a_div, r_div), _r_shape),
         sp |-> np_reshape_lead(rest(d_div), _s_shape),
         d |-> np_reshape_lead(cut(r_div, d_div), _d_shape)]

\* The counter accumulated without the gate: self._contains += sarses_len
count_always(size, contains, sarses_len) == contains + sarses_len

\* The counter assigned instead of accumulated: self._contains = sarses_len
count_last(size, contains, sarses_len) == sarses_len

\* if not self.should_sample: self._contains += sarses_len
count_seen(size, contains, sarses_len) ==
    IF ~should_sample_of(size, contains) THEN contains + sarses_len ELSE contains

\* The body of store_example_batch: what it raises, and the fields it leaves.
store_batch_body(s_arr, a_arr, r_arr, sp_arr, done_mask) ==
    LET enc == _encode_sarses(s_arr, np_flatten(a_arr), np_flatten(r_arr),
                              sp_arr, np_flatten(done_mask))
        sarses_len == Len(enc.rows)
        contains2 == count_seen(_size, _contains, sarses_len)
        popped == _pop(_queue, sarses_len)
        stored == _push(popped.queue, enc.rows, _sars_size)
    IN  IF enc.err # "none"
        THEN [err |-> enc.err, contains |-> _contains, queue |-> _queue]
        ELSE IF popped.err # "none"
        THEN [err |-> popped.err, contains |-> contains2, queue |-> _queue]
        ELSE [err |-> stored.err, contains |-> contains2, queue |-> stored.queue]

\* The guard of sample without its readiness test: if n > self._size
sample_guard_size_only(size, contains, n) ==
    IF n > size THEN "ReplayBufferError" ELSE "none"

\* The guard of sample without its size test: if not self.should_sample
sample_guard_ready_only(size, contains, n) ==
    IF ~should_sample_of(size, contains) THEN "ReplayBufferError" ELSE "none"

\* if not self.should_sample or n > self._size: raise ReplayBufferError
sample_guard(size, contains, n) ==
    IF ~should_sample_of(size, contains) \/ n > size THEN "ReplayBufferError" ELSE "none"

\* ------------------------------------------------------------ arguments

\* Element i of part f (1: s, 2: a, 3: r, 4: sp) of the transition marked m.
\* Markers start at 1, so no element of a pushed transition's s, a, r or sp
\* is the 0 of the initial queue.
Elem(m, f, i) == m * 100 + f * 10 + i

Example(m, f, k) == [i \in 1..k |-> Elem(m, f, i)]

Done(m) == m % 2

Markers(n) == [j \in 1..n |-> marker + j - 1]

\* A batch of part f for the markers ms, each example of the given shape.
BatchOf(ms, f, shape) ==
    [shape |-> <<Len(ms)>> \o shape,
     data |-> Concat([j \in 1..Len(ms) |-> Example(ms[j], f, prod(shape))])]

DoneOf(ms) == [shape |-> <<Len(ms)>>, data |-> [j \in 1..Len(ms) |-> Done(ms[j])]]

BatchForms == {"ok", "a_lead", "a_row", "r_lead", "sp_lead", "d_lead", "s_wide"}

\* The arguments of a store_example_batch call of n transitions.
BatchArgs(fm, n) ==
    LET ms == Markers(n)
        more == Markers(n + 1)
        a_ok == BatchOf(ms, 2, _a_shape)
    IN  [s |-> IF fm = "s_wide" THEN BatchOf(ms, 1, <<_s_size + 1>>) ELSE BatchOf(ms, 1, _s_shape),
         a |-> CASE fm = "a_lead" -> BatchOf(more, 2, _a_shape)
                 [] fm = "a_row" -> [shape |-> <<1, Len(a_ok.data)>>, data |-> a_ok.data]
                 [] OTHER -> a_ok,
         r |-> IF fm = "r_lead" THEN BatchOf(more, 3, _r_shape) ELSE BatchOf(ms, 3, _r_shape),
         sp |-> IF fm = "sp_lead" THEN BatchOf(more, 4, _s_shape) ELSE BatchOf(ms, 4, _s_shape),
         d |-> IF fm = "d_lead" THEN DoneOf(more) ELSE DoneOf(ms)]

SingleForms == {"ok", "s_wide", "a_pair"}

\* The arguments of a store_example call.
SingleArgs(fm) ==
    [s |-> [shape |-> IF fm = "s_wide" THEN <<_s_size + 1>> ELSE _s_shape,
            data |-> Example(marker, 1, IF fm = "s_wide" THEN _s_size + 1 ELSE _s_size)],
     a |-> IF fm = "a_pair"
           THEN [shape |-> <<2 * _a_size>>, data |-> Example(marker, 2, 2 * _a_size)]
           ELSE [shape |-> _a_shape, data |-> Example(marker, 2, _a_size)],
     r |-> [shape |-> _r_shape, data |-> Example(marker, 3, _r_size)],
     sp |-> [shape |-> _s_shape, data |-> Example(marker, 4, _s_size)],
     d |-> [shape |-> <<>>, data |-> <<Done(marker)>>]]

NoReturn == <<>>

\* ------------------------------------------------------------- the calls

StateShapes == {<<2>>}
ActionShapes == {<<>>, <<2>>}
RewardShapes == {<<>>, <<2>>}

\* ReplayBuffer(size, s_shape, a_shape, r_shape), just constructed.  __init__
\* reads `size` (line 31), which its docstring lists as the first argument
\* and its signature omits; it is taken here as that argument, a positive
\* number of rows.
Init ==
    /\ _size \in 1..MaxSize
    /\ _contains = 0
    /\ _s_shape \in StateShapes
    /\ _a_shape \in ActionShapes
    /\ _r_shape \in RewardShapes
    /\ _queue = [i \in 1.._size |->
                   [k \in 1..(prod(_s_shape) * 2 + prod(_a_shape) + prod(_r_shape) + 1) |-> 0]]
    /\ op = "init"
    /\ form = "ok"
    /\ asked = 0
    /\ err = "none"
    /\ ret = NoReturn
    /\ indices = <<>>
    /\ pushed = <<>>
    /\ singles = TRUE
    /\ returned = TRUE
    /\ marker = 1

\* What a push call leaves, given what its body computed.
PushEffect(name, fm, n, out) ==
    /\ _contains' = out.contains
    /\ _queue' = out.queue
    /\ op' = name
    /\ form' = fm
    /\ asked' = n
    /\ err' = out.err
    /\ ret' = NoReturn
    /\ indices' = <<>>
    /\ pushed' = IF out.err = "none" THEN pushed \o Markers(n) ELSE pushed
    /\ singles' = (singles /\ name = "store_example")
    /\ returned' = (returned /\ out.err = "none")
    /\ marker' = marker + n
    /\ UNCHANGED <<_size, _s_shape, _a_shape, _r_shape>>

store_example ==
    \E fm \in SingleForms :
        /\ marker <= MaxMarker
        /\ LET x == SingleArgs(fm)
           IN  PushEffect("store_example", fm, 1,
                          store_batch_body(np_expand_dims(x.s), np_expand_dims(x.a),
                                           np_expand_dims(x.r), np_expand_dims(x.sp),
                                           np_expand_dims(x.d)))

store_example_batch ==
    \E fm \in BatchForms, n \in 0..(_size + 1) :
        /\ marker + n <= MaxMarker + 1
        /\ fm = "a_row" => (n >= 2 /\ n <= _size)
        /\ LET x == BatchArgs(fm, n)
           IN  PushEffect("store_example_batch", fm, n,
                          store_batch_body(x.s, x.a, x.r, x.sp, x.d))

\* sample(n) that takes the rows it draws out of the queue (zeroes them)
sample_consumes ==
    \E n \in 0..(_size + 1) :
        /\ op' = "sample"
        /\ form' = "ok"
        /\ asked' = n
        /\ IF sample_guard(_size, _contains, n) # "none"
           THEN /\ err' = sample_guard(_size, _contains, n)
                /\ ret' = NoReturn
                /\ indices' = <<>>
                /\ _queue' = _queue
           ELSE \E ix \in np_random_choice(_size, n) :
                /\ err' = "none"
                /\ indices' = ix
                /\ ret' = _decode_sarses([k \in 1..n |-> _queue[ix[k] + 1]])
                /\ _queue' = [i \in 1.._size |->
                                IF \E k \in 1..n : ix[k] + 1 = i
                                THEN [c \in 1.._sars_size |-> 0] ELSE _queue[i]]
        /\ UNCHANGED <<_size, _contains, _s_shape, _a_shape, _r_shape,
                       pushed, singles, returned, marker>>

\* sample(n), for a sample size n >= 0 (a negative n is not drawn here)
sample ==
    \E n \in 0..(_size + 1) :
        /\ op' = "sample"
        /\ form' = "ok"
        /\ asked' = n
        /\ IF sample_guard(_size, _contains, n) # "none"
           THEN /\ err' = sample_guard(_size, _contains, n)
                /\ ret' = NoReturn
                /\ indices' = <<>>
           ELSE IF n > _size
           THEN \* np.random.choice: a larger sample than the population
                /\ err' = "ValueError"
                /\ ret' = NoReturn
                /\ indices' = <<>>
           ELSE \E ix \in np_random_choice(_size, n) :
                /\ err' = "none"
                /\ indices' = ix
                /\ ret' = _decode_sarses([k \in 1..n |-> _queue[ix[k] + 1]])
        /\ UNCHANGED <<_size, _contains, _s_shape, _a_shape, _r_shape, _queue,
                       pushed, singles, returned, marker>>

Next == store_example \/ store_example_batch \/ sample

Spec == Init /\ [][Next]_vars

\* ------------------------------------------------------- construction

\* np.zeros((size, width)): a negative dimension is refused
np_zeros(size, width) ==
    IF size < 0
    THEN [err |-> "ValueError", rows |-> <<>>]
    ELSE [err |-> "none", rows |-> [i \in 1..size |-> [k \in 1..width |-> 0]]]

\* No buffer constructed yet: the fields hold nothing.
InitNew ==
    /\ _size = 0
    /\ _contains = 0
    /\ _s_shape = <<>>
    /\ _a_shape = <<>>
    /\ _r_shape = <<>>
    /\ _queue = <<>>
    /\ op = "unconstructed"
    /\ form = "ok"
    /\ asked = 0
    /\ err = "none"
    /\ ret = NoReturn
    /\ indices = <<>>
    /\ pushed = <<>>
    /\ singles = TRUE
    /\ returned = TRUE
    /\ marker = 1

\* ReplayBuffer(size, s_shape, a_shape, r_shape), for any integer size: the
\* only thing that can refuse a size is np.zeros on line 42.
__init__ ==
    \E size \in (-1)..MaxSize, ss \in StateShapes, as \in ActionShapes, rs \in RewardShapes :
        /\ op = "unconstructed"
        /\ asked' = size
        /\ LET z == np_zeros(size, prod(ss) * 2 + prod(as) + prod(rs) + 1)
           IN  IF z.err # "none"
               THEN /\ err' = z.err
                    /\ UNCHANGED <<_size, _s_shape, _a_shape, _r_shape, _queue, op>>
               ELSE /\ err' = "none"
                    /\ _size' = size
                    /\ _s_shape' = ss
                    /\ _a_shape' = as
                    /\ _r_shape' = rs
                    /\ _queue' = z.rows
                    /\ op' = "__init__"
        /\ UNCHANGED <<_contains, form, ret, indices, pushed, singles, returned, marker>>

NextNew ==
    \/ __init__
    \/ (op # "unconstructed" /\ store_example)
    \/ (op # "unconstructed" /\ store_example_batch)
    \/ (op # "unconstructed" /\ sample)

SpecNew == InitNew /\ [][NextNew]_vars

\* ------------------------------------------------- the codec on its own

\* A buffer whose _encode_sarses and _decode_sarses are called directly;
\* _queue holds the encoded matrix under study, ret what decoding returned.
InitCodec ==
    /\ _size = 1
    /\ _contains = 0
    /\ _s_shape \in StateShapes
    /\ _a_shape \in ActionShapes
    /\ _r_shape \in RewardShapes
    /\ _queue = <<>>
    /\ op = "init"
    /\ form = "ok"
    /\ asked = 0
    /\ err = "none"
    /\ ret = NoReturn
    /\ indices = <<>>
    /\ pushed = <<>>
    /\ singles = TRUE
    /\ returned = TRUE
    /\ marker = 1

CodecForms == {"ok", "s_wide"}

\* _encode_sarses(s, a, r, sp, d) of a batch of n transitions, then
\* _decode_sarses of the matrix it returned.
encode_decode ==
    \E fm \in CodecForms, n \in 0..MaxSize :
        /\ marker + n <= MaxMarker + 1
        /\ LET x == BatchArgs(fm, n)
               enc == _encode_sarses(x.s, x.a, x.r, x.sp, x.d)
           IN  /\ err' = enc.err
               /\ _queue' = enc.rows
               /\ ret' = IF enc.err = "none" /\ fm = "ok"
                         THEN _decode_sarses(enc.rows) ELSE NoReturn
        /\ op' = "encode_decode"
        /\ form' = fm
        /\ asked' = n
        /\ marker' = marker + n
        /\ UNCHANGED <<_size, _contains, _s_shape, _a_shape, _r_shape,
                       indices, pushed, singles, returned>>

\* The n x _sars_size matrix whose entry (i, k) is (base + i) * 10 + k.
Matrix(base, n) == [i \in 1..n |-> [k \in 1.._sars_size |-> (base + i) * 10 + k]]

\* _decode_sarses(sarses) of an n x _sars_size matrix, then _encode_sarses
\* of the five arrays it returned.
decode_encode ==
    \E n \in 0..MaxSize, base \in 0..MaxMarker :
        /\ LET dec == _decode_sarses(Matrix(base, n))
           IN  /\ _queue' = Matrix(base, n)
               /\ ret' = dec
               /\ err' = _encode_sarses(dec.s, dec.a, dec.r, dec.sp, dec.d).err
        /\ op' = "decode_encode"
        /\ form' = "ok"
        /\ asked' = n
        /\ UNCHANGED <<_size, _contains, _s_shape, _a_shape, _r_shape,
                       indices, pushed, singles, returned, marker>>

NextCodec == encode_decode \/ decode_encode

SpecCodec == InitCodec /\ [][NextCodec]_vars

\* ------------------------------------------------------------ properties

\* The record of the transition marked m in the layout
\* [state | action | reward | done | next_state].
Record(m) ==
    Example(m, 1, _s_size) \o Example(m, 2, _a_size) \o Example(m, 3, _r_size)
    \o <<Done(m)>> \o Example(m, 4, _s_size)

\* The transition marked m, part by part, as it was handed to the push.
Transition(m) ==
    [s |-> Example(m, 1, _s_size), a |-> Example(m, 2, _a_size),
     r |-> Example(m, 3, _r_size), sp |-> Example(m, 4, _s_size), d |-> <<Done(m)>>]

\* Example k of a returned array whose examples hold `per` elements each.
Part(x, k, per) == SubSeq(x.data, (k - 1) * per + 1, k * per)

\* The k-th transition the last sample call returned.
Returned(k) ==
    [s |-> Part(ret.s, k, _s_size), a |-> Part(ret.a, k, _a_size),
     r |-> Part(ret.r, k, _r_size), sp |-> Part(ret.sp, k, _s_size),
     d |-> Part(ret.d, k, _d_size)]

\* The markers of the last `_size` transitions pushed (all, while fewer).
Window == SubSeq(pushed, Max(Len(pushed) - _size, 0) + 1, Len(pushed))

\* The five batches of a store_example_batch call do not share one leading
\* dimension.
MismatchedBatch(fm, n) ==
    LET x == BatchArgs(fm, n)
    IN  \E part \in {x.a, x.r, x.sp, x.d} : part.shape[1] # x.s.shape[1]

\* C1 (FIFO eviction): when every push so far was a store_example call that
\* returned and at least _size transitions were pushed, the queue holds the
\* records of the last _size pushed transitions in push order, the oldest of
\* them in row 0 and the most recent in row _size - 1.
C1_FifoEviction ==
    (singles /\ returned /\ Len(pushed) >= _size)
        => _queue = [i \in 1.._size |-> Record(pushed[Len(pushed) - _size + i])]

C1_Witness ==
    /\ singles /\ returned /\ op = "store_example"
    /\ _size >= 2 /\ Len(pushed) > _size

\* C2 (readiness threshold): while every push so far returned, should_sample
\* is false as long as fewer than _size transitions were pushed and true from
\* the push at which the pushed count reaches or passes _size; below the
\* threshold the fill counter is the pushed count.
C2_ReadinessThreshold ==
    returned =>
        /\ should_sample <=> Len(pushed) >= _size
        /\ ~should_sample => _contains = Len(pushed)

C2_Witness ==
    /\ returned /\ op = "store_example_batch" /\ should_sample
    /\ _contains > _size /\ Len(pushed) = _contains

\* C3 (ready is absorbing): no call, returning or raising, takes the buffer
\* from should_sample true to should_sample false.
C3_ReadyAbsorbing == [][should_sample => should_sample']_vars

C3_Witness ==
    /\ should_sample /\ Len(pushed) > _size
    /\ op = "store_example_batch" /\ err # "none"

\* C4 (sampling window): every transition a returning sample call hands back
\* is one of the last _size transitions pushed so far.
C4_SamplingWindow ==
    (op = "sample" /\ err = "none")
        => \A k \in 1..asked :
              \E j \in 1..Len(Window) : Returned(k) = Transition(Window[j])

\* C5 (sampling legality): sample(n) of a ready buffer with n <= _size returns;
\* it draws n pairwise distinct row indices in [0, _size), and returns n
\* transitions, the k-th being the record resident at the k-th drawn index.
C5_SamplingLegality ==
    (op = "sample" /\ should_sample /\ asked <= _size)
        => /\ err = "none"
           /\ Len(indices) = asked
           /\ \A k \in 1..asked : indices[k] \in 0..(_size - 1)
           /\ \A k, l \in 1..asked : k # l => indices[k] # indices[l]
           /\ ret.s.shape = <<asked>> \o _s_shape
           /\ ret.a.shape = <<asked>> \o _a_shape
           /\ ret.r.shape = <<asked>> \o _r_shape
           /\ ret.sp.shape = <<asked>> \o _s_shape
           /\ ret.d.shape = <<asked>>
           /\ \A k \in 1..asked :
                 Returned(k).s \o Returned(k).a \o Returned(k).r
                 \o Returned(k).d \o Returned(k).sp = _queue[indices[k] + 1]

C5_Witness ==
    /\ op = "sample" /\ err = "none" /\ _size >= 2 /\ asked = _size
    /\ indices[1] > indices[2] /\ Len(pushed) > _size

\* C6 (a ready buffer is overwritten): whenever should_sample is true every
\* row of the queue is the record of a transition that was pushed.
C6_ReadyMeansOverwritten ==
    should_sample
        => \A i \in 1.._size : \E j \in 1..Len(pushed) : _queue[i] = Record(pushed[j])

\* C7 (no partial success): a call that raises leaves the queue and the fill
\* counter as they were.
C7_NoPartialSuccess ==
    [][err' # "none" => (_queue' = _queue /\ _contains' = _contains)]_vars

\* C8 (shape enforcement): a store_example_batch call whose five batches do
\* not share one leading dimension raises the buffer's error and leaves the
\* queue and the fill counter as they were.
C8_ShapeEnforcement ==
    [][(op' = "store_example_batch" /\ MismatchedBatch(form', asked'))
         => (err' = "ReplayBufferError" /\ _queue' = _queue /\ _contains' = _contains)]_vars

\* C9 (not ready): sample(n) of a buffer whose should_sample is false raises
\* the buffer's error, whatever n, and returns nothing.
C9_NotReady ==
    (op = "sample" /\ ~should_sample)
        => (err = "ReplayBufferError" /\ ret = NoReturn /\ indices = <<>>)

C9_Witness ==
    /\ op = "sample" /\ ~should_sample /\ pushed # <<>>
    /\ asked >= 1 /\ asked <= _size

\* C10 as stated (request too large): sample(n) of a ready buffer with
\* n > _size raises an error of another kind than the one a buffer that is
\* not ready raises.
C10_DistinctKinds ==
    (op = "sample" /\ should_sample /\ asked > _size)
        => (err # "none" /\ err # sample_guard(_size, 0, asked))

\* C10 as amended: sample(n) of a ready buffer with n > _size raises
\* ReplayBufferError, the same error a buffer that is not ready raises, and
\* returns nothing.
C10_TooLarge ==
    (op = "sample" /\ should_sample /\ asked > _size)
        => /\ err = "ReplayBufferError"
           /\ err = sample_guard(_size, 0, asked)
           /\ ret = NoReturn /\ indices = <<>>

C10_Witness ==
    /\ op = "sample" /\ should_sample /\ asked > _size
    /\ Len(pushed) >= _size

\* C11 (oversized push): a store_example_batch call with a well-formed batch
\* of more than _size transitions (scalar action and reward) returns, and
\* leaves the queue holding the last _size transitions of the batch in batch
\* order.
C11_OversizedPush ==
    (/\ op = "store_example_batch" /\ form = "ok" /\ asked > _size
     /\ _a_shape = <<>> /\ _r_shape = <<>>)
        => /\ err = "none"
           /\ _queue = [i \in 1.._size |-> Record(marker - _size + i - 1)]

\* The batch of the last call: the transitions marked marker - asked .. marker - 1.
LastBatch == [j \in 1..asked |-> marker - asked + j - 1]

\* decode(encode(batch)) is the batch, part by part.
DecodeInvertsEncode ==
    /\ err = "none"
    /\ ret = [s |-> BatchOf(LastBatch, 1, _s_shape),
              a |-> BatchOf(LastBatch, 2, _a_shape),
              r |-> BatchOf(LastBatch, 3, _r_shape),
              sp |-> BatchOf(LastBatch, 4, _s_shape),
              d |-> DoneOf(LastBatch)]

\* encode(decode(matrix)) is the matrix.
EncodeInvertsDecode ==
    LET enc == _encode_sarses(ret.s, ret.a, ret.r, ret.sp, ret.d)
    IN  err = "none" /\ enc.err = "none" /\ enc.rows = _queue

\* C12 as stated (round trip): for every batch of n transitions of the
\* configured shapes, decoding its encoding returns the batch; for every
\* n x _sars_size matrix, encoding its decoding returns the matrix.
C12_RoundTripAll ==
    /\ (op = "encode_decode" /\ form = "ok") => DecodeInvertsEncode
    /\ op = "decode_encode" => EncodeInvertsDecode

\* C12 as amended: the same for n >= 1 (for n = 0 _encode_sarses raises).
C12_RoundTrip ==
    /\ (op = "encode_decode" /\ form = "ok" /\ asked >= 1) => DecodeInvertsEncode
    /\ (op = "decode_encode" /\ asked >= 1) => EncodeInvertsDecode

C12_Witness ==
    /\ op = "encode_decode" /\ form = "ok" /\ asked >= 2 /\ err = "none"
    /\ _a_shape = <<2>> /\ _r_shape = <<2>>

\* C13 (construction): no buffer with a size of zero or less is ever
\* constructed; a constructor call with such a size raises.
C13_PositiveCapacity == op # "unconstructed" => _size >= 1

\* C14 (batch push step): a store_example_batch call with a well-formed batch
\* of n transitions, 1 <= n <= _size, that returns leaves the former rows
\* n.._size-1 in rows 0.._size-n-1, in order, followed by the n new records in
\* batch order; the queue keeps _size rows.  With scalar action and reward
\* shapes the call does return.
C14_BatchPushStep ==
    [][(op' = "store_example_batch" /\ form' = "ok" /\ asked' >= 1 /\ asked' <= _size)
         => /\ (_a_shape = <<>> /\ _r_shape = <<>>) => err' = "none"
            /\ err' = "none" =>
                 /\ Len(_queue') = _size
                 /\ \A i \in 1.._size :
                       _queue'[i] = IF i <= _size - asked'
                                    THEN _queue[i + asked']
                                    ELSE Record(marker + i - (_size - asked') - 1)]_vars

C14_Witness ==
    /\ op = "store_example_batch" /\ form = "ok" /\ err = "none"
    /\ asked >= 1 /\ asked < _size /\ Len(pushed) > asked

\* C15 (fill counter discipline): _contains never decreases; a push of n
\* transitions that returns while should_sample is false adds exactly n to
\* it; a push while should_sample is true leaves it as it was.
C15_FillCounter ==
    [][/\ _contains' >= _contains
       /\ (op' \in {"store_example", "store_example_batch"} /\ err' = "none" /\ ~should_sample)
             => _contains' = _contains + asked'
       /\ (op' \in {"store_example", "store_example_batch"} /\ should_sample)
             => _contains' = _contains]_vars

C15_Witness ==
    /\ op \in {"store_example", "store_example_batch"} /\ err = "none"
    /\ should_sample /\ returned /\ Len(pushed) > _contains

\* C16 (single-push equivalence): store_example of one transition leaves the
\* queue and the fill counter, and raises, exactly as store_example_batch of
\* the batch of size 1 holding that transition does from the same state; when
\* it returns, exactly the oldest row is gone and the others moved up by one.
C16_SinglePushEquivalence ==
    [][(op' = "store_example" /\ form' \in SingleForms \cap BatchForms)
         => LET x == BatchArgs(form', 1)
                out == store_batch_body(x.s, x.a, x.r, x.sp, x.d)
            IN  /\ _queue' = out.queue
                /\ _contains' = out.contains
                /\ err' = out.err
                /\ err' = "none" =>
                     \A i \in 1..(_size - 1) : _queue'[i] = _queue[i + 1]]_vars

C16_Witness ==
    /\ op = "store_example" /\ form = "ok" /\ err = "none"
    /\ _size >= 2 /\ Len(pushed) > _size

\* C17 (sampling is read-only): a sample call, returning or raising, leaves
\* the queue, its size, the fill counter and should_sample as they were.
C17_SampleReadOnly ==
    [][op' = "sample"
         => /\ _queue' = _queue
            /\ _size' = _size
            /\ _contains' = _contains
            /\ should_sample' <=> should_sample]_vars

C17_Witness ==
    /\ op = "sample" /\ err = "none" /\ asked >= 1 /\ Len(pushed) >= _size

\* C18 (per-example size enforcement): _encode_sarses of a batch whose parts
\* share the leading dimension n >= 1 but whose states hold one element more
\* than _s_size each raises the buffer's error.
C18_PerExampleSize ==
    (op = "encode_decode" /\ form = "s_wide" /\ asked >= 1)
        => err = "ReplayBufferError"

\* C19 (well-formed batches are accepted): for every configured shape triple,
\* a store_example_batch call with n transitions of exactly the configured
\* shapes, 1 <= n <= _size, returns and leaves their n records, each of
\* 2 * _s_size + _a_size + _r_size + 1 numbers laid out as
\* [state | action | reward | done | next_state], in the last n rows.
C19_WellFormedAccepted ==
    (op = "store_example_batch" /\ form = "ok" /\ asked >= 1 /\ asked <= _size)
        => /\ err = "none"
           /\ \A j \in 1..asked :
                 /\ _queue[_size - asked + j] = Record(marker - asked + j - 1)
                 /\ Len(_queue[_size - asked + j]) = 2 * _s_size + _a_size + _r_size + 1

====
